---- MODULE Spec2Model ----
(***************************************************************************)
(* Model of the Inspirational Mandala Generator (src/app.py).              *)
(*                                                                         *)
(* The Streamlit script is run top to bottom once per user interaction of  *)
(* a session.  Python objects (PIL images) live in one process-wide heap   *)
(* and are referred to by identity; st.session_state is per session; the   *)
(* module attribute openai.api_key is one per process.                     *)
(***************************************************************************)
EXTENDS Integers, FiniteSets, Sequences, TLC

VARIABLES
    heap,            \* object id -> PIL image object (the Python process heap)
    openai_api_key,  \* the module attribute openai.api_key (process-wide)
    session_state,   \* per session: mandala_image, framed_images, selected_frame
    widgets,         \* per session: current values of the two text inputs
    pc,              \* per session: position of the session's script thread
    locals,          \* per session: arguments of a running generate_mandala_image
    sent,            \* per session: the generation request in flight to the provider
    gen,             \* per session: what generate_mandala_image did in the last run
    view,            \* per session: what the last script run rendered
    call             \* a direct call add_frame(image, frame_style) and its result

vars == <<heap, openai_api_key, session_state, widgets, pc, locals, sent, gen, view, call>>

\* Python's None, where a string is expected
None == "None"

\* Python's None, where a reference to an image object is expected (object
\* identities are positive)
NoImage == 0

(***************************************************************************)
(* Bounds of the model.                                                    *)
(***************************************************************************)
\* largest image side, in pixels, of the images add_frame is called on directly
MaxDim == 82

\* addresses of one thread's arena: a run holds at most the four objects of
\* the previous generation and the four of the new one
ArenaSize == 8

\* side of the square image the provider returns for size="1024x1024"
\* (line 70), scaled down
ImageSide == 3

(***************************************************************************)
(* add_frame (src/app.py:88-113) and the PIL operations it uses.           *)
(***************************************************************************)
\* the frame table, lines 89-93
frames ==
    ("Classic Wood" :> [color |-> "#8B4513", width |-> 40]) @@
    ("Modern Black" :> [color |-> "#1a1a1a", width |-> 30]) @@
    ("Silver Metal" :> [color |-> "#C0C0C0", width |-> 35])

\* the list of styles iterated at line 165 (and frame_options, line 187)
frame_options == <<"Classic Wood", "Modern Black", "Silver Metal">>

FrameStyles == {frame_options[i] : i \in DOMAIN frame_options}

\* pixel coordinates of an image of the given size
Pixels(size) == (0 .. size[1] - 1) \X (0 .. size[2] - 1)

\* The allocator.  An object identity is an address; each script thread
\* allocates from its own arena of ArenaSize addresses, and a fresh object
\* takes the lowest address of the arena that no live object occupies, so it
\* is distinct from every object that is still alive.
ArenaOf(id) == (id - 1) \div ArenaSize

NewId(h, arena) ==
    LET addresses == (arena * ArenaSize + 1) .. ((arena + 1) * ArenaSize)
    IN  CHOOSE i \in addresses :
            /\ i \notin DOMAIN h
            /\ \A j \in addresses : j < i => j \in DOMAIN h

\* Image.load(): decodes the pixel data of a lazily opened file; raises
\* OSError when the data is truncated or corrupt
LoadRaises(h, image) == h[image].file = "corrupt"

\* (a copy that shares the storage of its source)
copy_alias(h, image) == [heap |-> h, ret |-> image]

\* Image.copy(), line 96: loads the image, then allocates a new image object
\* with its own pixel storage
copy(h, image) ==
    LET id == NewId(h, ArenaOf(image))
    IN  [heap |-> (id :> [h[image] EXCEPT !.file = "memory"]) @@ h, ret |-> id]

\* (a rectangle that leaves out its second corner's column and row)
rectangle_exclusive(h, image, xy, fill) ==
    [h EXCEPT ![image].px =
        [p \in DOMAIN @ |->
            IF /\ xy[1] <= p[1] /\ p[1] < xy[3]
               /\ xy[2] <= p[2] /\ p[2] < xy[4]
            THEN fill ELSE @[p]]]

\* ImageDraw.rectangle(xy, fill): paints, in place, every pixel of the image
\* with x0 <= x <= x1 and y0 <= y <= y1 (both corners included); the part of
\* the box outside the image is clipped
rectangle(h, image, xy, fill) ==
    [h EXCEPT ![image].px =
        [p \in DOMAIN @ |->
            IF /\ xy[1] <= p[1] /\ p[1] <= xy[3]
               /\ xy[2] <= p[2] /\ p[2] <= xy[4]
            THEN fill ELSE @[p]]]

\* the four boxes of lines 108-111, in drawing order: top, bottom, left, right
Rectangles(size, width) ==
    LET img_width == size[1]
        img_height == size[2]
    IN  << <<0, 0, img_width - 1, width>>,
           <<0, img_height - width, img_width - 1, img_height - 1>>,
           <<0, 0, width, img_height - 1>>,
           <<img_width - width, 0, img_width - 1, img_height - 1>> >>

\* add_frame(image, frame_style), lines 88-113.  The result is the heap after
\* the call, the returned object (None when the call raised) and whether it
\* raised.
add_frame(h, image, frame_style) ==
    IF LoadRaises(h, image)
    THEN [heap |-> h, ret |-> NoImage, raised |-> TRUE]
    ELSE
        LET c == copy(h, image)
            framed_image == c.ret
            frame == frames[frame_style]
            width == frame.width
            color == frame.color
            r == Rectangles(c.heap[framed_image].size, width)
            h1 == rectangle(c.heap, framed_image, r[1], color)
            h2 == rectangle(h1, framed_image, r[2], color)
            h3 == rectangle(h2, framed_image, r[3], color)
            h4 == rectangle(h3, framed_image, r[4], color)
        IN  [heap |-> h4, ret |-> framed_image, raised |-> FALSE]

(***************************************************************************)
(* A direct call of add_frame on an image of any size (pure-function use). *)
(***************************************************************************)
\* image sides tried: one pixel, twice each style's width, one more than
\* that, and the largest
Dims ==
    {1, MaxDim} \cup
    UNION {{2 * frames[f].width, 2 * frames[f].width + 1} : f \in FrameStyles}

\* picture contents; none of the colours is a frame colour
Patterns == {"white", "tiles"}

Pattern(p, x, y) ==
    IF p = "white" THEN "white"
    ELSE <<"dark blue", "medium blue", "light gray">>[((x + 2 * y) % 3) + 1]

\* a decoded picture of the given size
Picture(size, p, prompt) ==
    [size |-> size, file |-> "ok", prompt |-> prompt,
     px |-> [q \in Pixels(size) |-> Pattern(p, q[1], q[2])]]

NoCall == [image |-> NoImage, frame_style |-> None, ret |-> NoImage,
           raised |-> FALSE, done |-> FALSE]

\* add_frame(image, frame_style) is called and returns
CallAddFrame ==
    /\ call.image # NoImage
    /\ ~call.done
    /\ LET r == add_frame(heap, call.image, call.frame_style)
       IN  /\ heap' = r.heap
           /\ call' = [call EXCEPT !.ret = r.ret, !.raised = r.raised, !.done = TRUE]
    /\ UNCHANGED <<openai_api_key, session_state, widgets, pc, locals, sent, gen, view>>

(***************************************************************************)
(* The sessions: widgets, session state and the script run.                *)
(***************************************************************************)
Sessions == {"s1", "s2"}

\* the API key a session's user owns and types into the password input
KeyOf == ("s1" :> "sk-s1") @@ ("s2" :> "sk-s2")

\* the arena of a session's script thread
Arena == ("s1" :> 0) @@ ("s2" :> 1)

\* inspiration words a session's user types
WordsOf == ("s1" :> {"love", "peace"}) @@ ("s2" :> {"calm"})

\* create_mandala_prompt(inspiration), lines 47-58: the template with the
\* word substituted at its two places
create_mandala_prompt(inspiration) ==
    <<"Create a beautiful, detailed mandala art inspired by the word '",
      inspiration,
      "' ... Include subtle elements that relate to '",
      inspiration,
      "' in the mandala pattern ...">>

\* the word a prompt was built from
WordOf(prompt) == prompt[2]

\* what the three external steps of generate_mandala_image (lines 67-80) can
\* do: openai.Image.create raises; requests.get raises; Image.open raises
\* (bytes not identified as an image); Image.open returns an image whose
\* pixel data cannot be decoded (Image.open reads the header only, the data
\* is decoded by the first load()); all succeed
Responses == {"create_error", "fetch_error", "open_error", "corrupt_data", "ok"}

\* the object Image.open returns, line 80: the picture the provider drew for
\* the prompt, its pixels not yet decoded
Opened(response, prompt) ==
    IF response = "ok"
    THEN Picture(<<ImageSide, ImageSide>>, "tiles", prompt)
    ELSE [size |-> <<ImageSide, ImageSide>>, file |-> "corrupt",
          prompt |-> prompt, px |-> <<>>]

\* lines 124-129
InitialSessionState ==
    [mandala_image |-> NoImage, framed_images |-> <<>>, selected_frame |-> "Classic Wood"]

\* the download file name of line 218; the timestamp is the clock's value at
\* the render and is left symbolic
Filename(inspiration) == <<"mandala_", inspiration, "_", "%Y%m%d_%H%M%S", ".png">>

\* Main content area, lines 171-243, for a run in which no frame button is
\* pressed: what the run shows.  framed_images[selected_frame] of lines 177
\* and 217 raises KeyError when the key is missing, which ends the run.
Render(ss, inspiration) ==
    IF ss.mandala_image # NoImage
    THEN IF ss.selected_frame \in DOMAIN ss.framed_images
         THEN [shown |-> ss.framed_images[ss.selected_frame],
               caption |-> <<inspiration, ss.selected_frame>>,
               download |-> ss.framed_images[ss.selected_frame],
               filename |-> Filename(inspiration),
               placeholder |-> FALSE,
               select_buttons |-> TRUE,
               exception |-> None]
         ELSE [shown |-> NoImage, caption |-> <<>>, download |-> NoImage,
               filename |-> <<>>, placeholder |-> FALSE,
               select_buttons |-> FALSE, exception |-> "KeyError"]
    ELSE \* lines 229-243
         [shown |-> NoImage, caption |-> <<>>, download |-> NoImage,
          filename |-> <<>>, placeholder |-> TRUE,
          select_buttons |-> FALSE, exception |-> None]

\* a run ended by an exception raised inside the sidebar block (line 164):
\* the main content area is not reached
Aborted(e) ==
    [shown |-> NoImage, caption |-> <<>>, download |-> NoImage,
     filename |-> <<>>, placeholder |-> FALSE,
     select_buttons |-> FALSE, exception |-> e]

\* objects referred to by a session state
Refs(ss) ==
    (IF ss.mandala_image = NoImage THEN {} ELSE {ss.mandala_image}) \cup
    {ss.framed_images[f] : f \in DOMAIN ss.framed_images}

\* reference counting: at the end of a run the objects no session state
\* refers to are freed
Collect(h, sstate) ==
    LET live == UNION {Refs(sstate[s]) : s \in Sessions}
    IN  [i \in (DOMAIN h) \cap live |-> h[i]]

\* no call of generate_mandala_image is running
NoLocals == [api_key |-> None, prompt |-> <<>>]

\* no generation request is in flight
NoRequest == [api_key |-> None, prompt |-> <<>>]

\* generate_mandala_image was not called in the run
NoGen == [response |-> None, ret |-> None, st_error |-> FALSE]

\* lines 160-166: the image is stored, then the three frames are built in
\* the order of the list and the dictionary is stored.  An exception raised
\* by add_frame leaves the run after line 160 and before the assignment of
\* line 163.
Store(h, ss, image) ==
    LET ss1 == [ss EXCEPT !.mandala_image = image]
        a1 == add_frame(h, image, frame_options[1])
        a2 == add_frame(a1.heap, image, frame_options[2])
        a3 == add_frame(a2.heap, image, frame_options[3])
    IN  IF a1.raised \/ a2.raised \/ a3.raised
        THEN [heap |-> h, ss |-> ss1, raised |-> TRUE]
        ELSE [heap |-> a3.heap,
              ss |-> [ss1 EXCEPT !.framed_images =
                         (frame_options[1] :> a1.ret) @@
                         (frame_options[2] :> a2.ret) @@
                         (frame_options[3] :> a3.ret)],
              raised |-> FALSE]

\* the user edits the API key input (line 143); the script reruns with no
\* button pressed
EditApiKey(s, k) ==
    /\ pc[s] = "idle"
    /\ widgets[s].api_key # k
    /\ widgets' = [widgets EXCEPT ![s].api_key = k]
    /\ gen' = [gen EXCEPT ![s] = NoGen]
    /\ view' = [view EXCEPT ![s] = Render(session_state[s], widgets[s].inspiration)]
    /\ UNCHANGED <<heap, openai_api_key, session_state, pc, locals, sent, call>>

\* the user edits the inspiration word input (line 146); the script reruns
\* with no button pressed
EditInspiration(s, w) ==
    /\ pc[s] = "idle"
    /\ widgets[s].inspiration # w
    /\ widgets' = [widgets EXCEPT ![s].inspiration = w]
    /\ gen' = [gen EXCEPT ![s] = NoGen]
    /\ view' = [view EXCEPT ![s] = Render(session_state[s], w)]
    /\ UNCHANGED <<heap, openai_api_key, session_state, pc, locals, sent, call>>

\* the user presses "Generate Mandala" (line 149).  With both inputs filled
\* (line 151) the run enters generate_mandala_image and sets openai.api_key
\* (line 63); otherwise the run goes on to the main content area.
ClickGenerate(s) ==
    /\ pc[s] = "idle"
    /\ gen' = [gen EXCEPT ![s] = NoGen]
    /\ IF widgets[s].inspiration # "" /\ widgets[s].api_key # ""
       THEN /\ openai_api_key' = widgets[s].api_key
            /\ locals' = [locals EXCEPT ![s] =
                   [api_key |-> widgets[s].api_key,
                    prompt |-> create_mandala_prompt(widgets[s].inspiration)]]
            /\ pc' = [pc EXCEPT ![s] = "create"]
            /\ UNCHANGED view
       ELSE /\ view' = [view EXCEPT ![s] =
                   Render(session_state[s], widgets[s].inspiration)]
            /\ UNCHANGED <<openai_api_key, locals, pc>>
    /\ UNCHANGED <<heap, session_state, widgets, sent, call>>

\* openai.Image.create, lines 67-73: the request is issued with the prompt
\* passed to it and the key the module attribute openai.api_key holds at
\* that moment
ImageCreate(s) ==
    /\ pc[s] = "create"
    /\ sent' = [sent EXCEPT ![s] =
           [api_key |-> openai_api_key, prompt |-> locals[s].prompt]]
    /\ pc' = [pc EXCEPT ![s] = "await"]
    /\ UNCHANGED <<heap, openai_api_key, session_state, widgets, locals, gen, view, call>>

\* the rest of generate_mandala_image (lines 73-85) and of the run (lines
\* 159-243): the provider, the fetch and the decoder answer with `response`
GenerateAndRender(s, response) ==
    /\ pc[s] = "await"
    /\ pc' = [pc EXCEPT ![s] = "idle"]
    /\ locals' = [locals EXCEPT ![s] = NoLocals]
    /\ sent' = [sent EXCEPT ![s] = NoRequest]
    /\ IF response \in {"create_error", "fetch_error", "open_error"}
       THEN \* lines 83-85: st.error, return None; line 159 skips the store
            /\ gen' = [gen EXCEPT ![s] =
                   [response |-> response, ret |-> None, st_error |-> TRUE]]
            /\ view' = [view EXCEPT ![s] =
                   Render(session_state[s], widgets[s].inspiration)]
            /\ UNCHANGED <<heap, session_state>>
       ELSE \* line 82: return img
            LET image == NewId(heap, Arena[s])
                h0 == (image :> Opened(response, sent[s].prompt)) @@ heap
                st == Store(h0, session_state[s], image)
            IN  /\ gen' = [gen EXCEPT ![s] =
                       [response |-> response, ret |-> "Image", st_error |-> FALSE]]
                /\ session_state' = [session_state EXCEPT ![s] = st.ss]
                /\ heap' = Collect(st.heap, session_state')
                /\ view' = [view EXCEPT ![s] =
                       IF st.raised THEN Aborted("OSError")
                       ELSE Render(st.ss, widgets[s].inspiration)]
    /\ UNCHANGED <<openai_api_key, widgets, call>>

\* (a selection that builds the frames again)
ClickSelectRebuild(s, i) ==
    /\ pc[s] = "idle"
    /\ view[s].select_buttons
    /\ LET st == Store(heap,
                       [session_state[s] EXCEPT !.selected_frame = frame_options[i]],
                       session_state[s].mandala_image)
       IN  /\ session_state' = [session_state EXCEPT ![s] = st.ss]
           /\ heap' = Collect(st.heap, session_state')
    /\ gen' = [gen EXCEPT ![s] = NoGen]
    /\ view' = [view EXCEPT ![s] =
           Render(session_state'[s], widgets[s].inspiration)]
    /\ UNCHANGED <<openai_api_key, widgets, pc, locals, sent, call>>

\* the user presses the i-th "Select" button (lines 209-211), which exists
\* when the last run rendered it; st.rerun() then runs the script again
ClickSelect(s, i) ==
    /\ pc[s] = "idle"
    /\ view[s].select_buttons
    /\ session_state' = [session_state EXCEPT ![s].selected_frame = frame_options[i]]
    /\ gen' = [gen EXCEPT ![s] = NoGen]
    /\ view' = [view EXCEPT ![s] =
           Render(session_state'[s], widgets[s].inspiration)]
    /\ UNCHANGED <<heap, openai_api_key, widgets, pc, locals, sent, call>>

(***************************************************************************)
(* Specifications.                                                         *)
(***************************************************************************)
\* every session has run the script once, with empty inputs
Init ==
    /\ heap = <<>>
    /\ openai_api_key = None
    /\ session_state = [s \in Sessions |-> InitialSessionState]
    /\ widgets = [s \in Sessions |-> [api_key |-> "", inspiration |-> ""]]
    /\ pc = [s \in Sessions |-> "idle"]
    /\ locals = [s \in Sessions |-> NoLocals]
    /\ sent = [s \in Sessions |-> NoRequest]
    /\ gen = [s \in Sessions |-> NoGen]
    /\ view = [s \in Sessions |-> Render(InitialSessionState, "")]
    /\ call = NoCall

\* the steps of session s
Step(s) ==
    \/ \E k \in {"", KeyOf[s]} : EditApiKey(s, k)
    \/ \E w \in {""} \cup WordsOf[s] : EditInspiration(s, w)
    \/ ClickGenerate(s)
    \/ ImageCreate(s)
    \/ \E response \in Responses : GenerateAndRender(s, response)
    \/ \E i \in DOMAIN frame_options : ClickSelect(s, i)

\* one user at work: the other session stays as it was after its first run
Next == Step("s1")

Spec == Init /\ [][Next]_vars

\* two users at work at once, each with the API key and a word typed in:
\* the script threads of the two sessions interleave
InitMulti ==
    /\ heap = <<>>
    /\ openai_api_key = None
    /\ session_state = [s \in Sessions |-> InitialSessionState]
    /\ widgets = ("s1" :> [api_key |-> KeyOf["s1"], inspiration |-> "love"]) @@
                 ("s2" :> [api_key |-> KeyOf["s2"], inspiration |-> "calm"])
    /\ pc = [s \in Sessions |-> "idle"]
    /\ locals = [s \in Sessions |-> NoLocals]
    /\ sent = [s \in Sessions |-> NoRequest]
    /\ gen = [s \in Sessions |-> NoGen]
    /\ view = [s \in Sessions |-> Render(InitialSessionState, widgets[s].inspiration)]
    /\ call = NoCall

NextMulti ==
    \E s \in Sessions :
        \/ ClickGenerate(s)
        \/ ImageCreate(s)
        \/ \E response \in Responses : GenerateAndRender(s, response)
        \/ \E i \in DOMAIN frame_options : ClickSelect(s, i)

SpecMulti == InitMulti /\ [][NextMulti]_vars

\* add_frame called directly on one image of every size and content tried
InitFrame ==
    /\ \E w \in Dims : \E h \in Dims : \E p \in Patterns :
          heap = (1 :> Picture(<<w, h>>, p, create_mandala_prompt("love")))
    /\ \E f \in FrameStyles :
          call = [NoCall EXCEPT !.image = 1, !.frame_style = f]
    /\ openai_api_key = None
    /\ session_state = [s \in Sessions |-> InitialSessionState]
    /\ widgets = [s \in Sessions |-> [api_key |-> "", inspiration |-> ""]]
    /\ pc = [s \in Sessions |-> "idle"]
    /\ locals = [s \in Sessions |-> NoLocals]
    /\ sent = [s \in Sessions |-> NoRequest]
    /\ gen = [s \in Sessions |-> NoGen]
    /\ view = [s \in Sessions |-> Render(InitialSessionState, "")]

NextFrame == CallAddFrame

SpecFrame == InitFrame /\ [][NextFrame]_vars

(***************************************************************************)
(* Properties of add_frame called directly (SpecFrame).                    *)
(***************************************************************************)
Min(a, b) == IF a <= b THEN a ELSE b

\* the image passed to the direct call, the image it returned, the width
\* and colour of the style passed
In == heap[call.image]
Out == heap[call.ret]
B == frames[call.frame_style].width
Colour == frames[call.frame_style].color
W == In.size[1]
H == In.size[2]

\* the border width is less than half the smaller side
Narrow == 2 * B < Min(W, H)

\* C4: for a W x H image and a style whose border width b is less than
\* min(W,H)/2, add_frame returns an image of the same size in which pixel
\* (x, y) has the style's colour if y <= b or y >= H-b or x <= b or x >= W-b,
\* and the input's pixel otherwise.
C4_FramePixels ==
    (call.done /\ Narrow) =>
        /\ ~call.raised
        /\ Out.size = In.size
        /\ DOMAIN Out.px = Pixels(In.size)
        /\ \A p \in Pixels(In.size) :
              Out.px[p] =
                  IF p[2] <= B \/ p[2] >= H - B \/ p[1] <= B \/ p[1] >= W - B
                  THEN Colour ELSE In.px[p]

\* a narrow frame was painted on a picture of several colours: the corner
\* pixels have the frame's colour and some inner pixel is kept
C4_Witness ==
    /\ call.done /\ Narrow /\ ~call.raised
    /\ Out.px[<<0, 0>>] = Colour
    /\ Out.px[<<W - 1, H - 1>>] = Colour
    /\ \E p \in Pixels(In.size) : Out.px[p] = In.px[p] /\ In.px[p] # In.px[<<0, 0>>]

\* C5: for a style of border width b < min(W,H)/2 the painted border is
\* exactly b pixels thick on each of the four sides and the inner
\* (W-2b) x (H-2b) region is unchanged.
C5_BorderThickness ==
    (call.done /\ Narrow) =>
        /\ ~call.raised
        /\ \A p \in Pixels(In.size) :
              Out.px[p] =
                  IF B <= p[1] /\ p[1] <= W - B - 1 /\ B <= p[2] /\ p[2] <= H - B - 1
                  THEN In.px[p] ELSE Colour

\* C8: for a style whose border width b is at least min(W,H)/2, add_frame
\* fails or every coordinate of the four rectangles it draws lies inside the
\* image and no rectangle has inverted coordinates.
C8_RectanglesInside ==
    (call.done /\ ~Narrow) =>
        \/ call.raised
        \/ \A k \in 1 .. 4 :
              LET r == Rectangles(In.size, B)[k]
              IN  /\ 0 <= r[1] /\ r[1] <= r[3] /\ r[3] <= W - 1
                  /\ 0 <= r[2] /\ r[2] <= r[4] /\ r[4] <= H - 1

(***************************************************************************)
(* Properties of the sessions (Spec, SpecMulti).                           *)
(***************************************************************************)
\* the image object a framed entry should equal: add_frame applied now to
\* the stored image
Framed(ss, f) ==
    LET r == add_frame(heap, ss.mandala_image, f)
    IN  IF r.raised THEN [raised |-> TRUE] ELSE r.heap[r.ret]

\* the objects a session state refers to have the same value after the step
SameObjects(s) == \A r \in Refs(session_state[s]) : r \in DOMAIN heap' /\ heap'[r] = heap[r]

\* C1: in every reachable session state the stored FramedImageSet is either
\* empty, and then no image is stored, or has exactly the three style keys,
\* each value being add_frame applied to the image currently stored.
C1_FramedSetInvariant ==
    \A s \in Sessions :
        LET ss == session_state[s]
        IN  \/ /\ DOMAIN ss.framed_images = {}
               /\ ss.mandala_image = NoImage
            \/ /\ DOMAIN ss.framed_images = FrameStyles
               /\ ss.mandala_image # NoImage
               /\ \A f \in FrameStyles :
                     heap[ss.framed_images[f]] = Framed(ss, f)

\* C2: when a generation attempt fails at any step while an image is stored,
\* generate_mandala_image returns no image and reports an error, and the
\* stored image, framed set and selected frame are what they were before.
C2_FailedGenerationLeavesState ==
    [][\A s \in Sessions :
          ( /\ pc[s] = "await" /\ pc'[s] = "idle"
            /\ gen'[s].response # "ok"
            /\ session_state[s].mandala_image # NoImage )
          => /\ gen'[s].ret = None
             /\ gen'[s].st_error
             /\ session_state'[s] = session_state[s]
             /\ SameObjects(s)]_vars

\* C3: selecting a frame style after a generation changes only the selected
\* frame, to the style selected: the stored image and the three framed
\* entries are the same objects with the same pixels, and no image object is
\* created.
C3_SelectChangesOnlySelection ==
    [][\A s \in Sessions :
          /\ \A i \in DOMAIN frame_options :
                ClickSelect(s, i) =>
                    session_state'[s].selected_frame = frame_options[i]
          /\ ( \/ session_state'[s].selected_frame # session_state[s].selected_frame
               \/ \E i \in DOMAIN frame_options : ClickSelect(s, i) )
             => /\ session_state'[s].mandala_image = session_state[s].mandala_image
                /\ session_state'[s].framed_images = session_state[s].framed_images
                /\ DOMAIN heap' = DOMAIN heap
                /\ SameObjects(s)]_vars

\* a style other than the default is selected and shown for a stored image
C3_Witness ==
    \E s \in Sessions :
        /\ session_state[s].mandala_image # NoImage
        /\ session_state[s].selected_frame # InitialSessionState.selected_frame
        /\ view[s].shown = session_state[s].framed_images[session_state[s].selected_frame]

\* colours of the provider's pictures
PictureColours == {Pattern(p, x, y) : p \in Patterns, x \in 0 .. 2, y \in 0 .. 2}

\* C6: add_frame does not modify its input, and the framed images are
\* independent copies: the stored image and the three entries are four
\* distinct objects, the stored image keeps the pixels the provider sent, and
\* an entry carries no colour of another style.
C6_IndependentCopies ==
    \A s \in Sessions :
        LET ss == session_state[s]
        IN  DOMAIN ss.framed_images # {} =>
            /\ Cardinality(Refs(ss)) = 4
            /\ \/ LoadRaises(heap, ss.mandala_image)
               \/ heap[ss.mandala_image] =
                      Opened("ok", heap[ss.mandala_image].prompt)
            /\ \A f \in FrameStyles : \A p \in DOMAIN heap[ss.framed_images[f]].px :
                  heap[ss.framed_images[f]].px[p] \in PictureColours \cup {frames[f].color}

\* three frames were painted from a stored, decoded image
C6_Witness ==
    \E s \in Sessions :
        LET ss == session_state[s]
        IN  /\ DOMAIN ss.framed_images = FrameStyles
            /\ ~LoadRaises(heap, ss.mandala_image)
            /\ \A f \in FrameStyles :
                  heap[ss.framed_images[f]].px[<<0, 0>>] = frames[f].color

\* C7: no mutable state is shared across sessions: a session's request is
\* issued with the key and prompt that session passed, the image a session
\* stores was drawn for a word of that session, and no object is referred to
\* by two sessions.
C7_SessionIsolation ==
    \A s \in Sessions :
        /\ pc[s] = "await" =>
              /\ sent[s].api_key = locals[s].api_key
              /\ sent[s].api_key = KeyOf[s]
              /\ sent[s].prompt = locals[s].prompt
        /\ session_state[s].mandala_image # NoImage =>
              WordOf(heap[session_state[s].mandala_image].prompt) \in WordsOf[s]
        /\ \A t \in Sessions \ {s} :
              Refs(session_state[s]) \cap Refs(session_state[t]) = {}

\* C9: whenever a generated image is displayed, the word in the download
\* file name and in the caption is the word the stored image was generated
\* from.
C9_FilenameWord ==
    \A s \in Sessions :
        view[s].shown # NoImage =>
            /\ view[s].filename[2] = WordOf(heap[session_state[s].mandala_image].prompt)
            /\ view[s].caption[1] = WordOf(heap[session_state[s].mandala_image].prompt)

\* C10: the selected frame is one of the three styles, and whenever an image
\* is stored the framed set has an entry for it, so that the lookups of a
\* render never raise KeyError.
C10_SelectedFramePresent ==
    \A s \in Sessions :
        /\ session_state[s].selected_frame \in FrameStyles
        /\ session_state[s].mandala_image # NoImage =>
              session_state[s].selected_frame \in DOMAIN session_state[s].framed_images
        /\ view[s].exception # "KeyError"

====
